---- MODULE Spec2Model ----
(***************************************************************************)
(* A model of src/main.py: class CityGrid.  The state is the object's      *)
(* fields (grid, towers), the position and the locals of a running         *)
(* optimize_tower_placement call, and the outcome of the last call made on *)
(* the object (what it returned or raised, and the graph the path query    *)
(* built).  Tower indices are the 0-based list indices of the code; the    *)
(* tower with index i is towers[i + 1].                                    *)
(***************************************************************************)
EXTENDS Integers, Sequences, FiniteSets

VARIABLES grid, towers, pc, budget, tower_type, ti, remaining_budget,
          distance, typePlaced, optPlaced, G, ret, lastCall

vars == <<grid, towers, pc, budget, tower_type, ti, remaining_budget,
          distance, typePlaced, optPlaced, G, ret, lastCall>>

optLocals == <<budget, tower_type, ti, remaining_budget, distance, typePlaced>>

\* ---------------------------------------------------------------- bounds
Rows == 1
Cols == 3
MaxRange == 2
MaxTowers == 2
MaxBudget == 2
MaxCost == 2
MaxCoverage == 1
MaxTypes == 2
\* More towers than any run of the model holds (TowerCapHolds).
TowerCap == MaxTowers + Rows * Cols + 1

\* ---------------------------------------------------------------- values
\* A local variable that no assignment has reached yet.
Unbound == -1

\* What a call gave back: None, a path (a list of tower indices), or the
\* exception that left it.
RetNone == [kind |-> "None", path |-> <<>>, exc |-> ""]
RetPath(p) == [kind |-> "path", path |-> p, exc |-> ""]
RetRaise(e) == [kind |-> "raise", path |-> <<>>, exc |-> e]

Call(op, args) == [op |-> op, args |-> args]

XS == 0 .. (Rows - 1)
YS == 0 .. (Cols - 1)

\* range(self.n) x range(self.m) in the order of the nested for loops.
Cells == [k \in 1 .. (Rows * Cols) |-> <<(k - 1) \div Cols, (k - 1) % Cols>>]

\* The indices of the towers of a registry.
Indices(tw) == 0 .. (Len(tw) - 1)

Sq(a) == a * a

\* distance = (x - tx) ** 2 + (y - ty) ** 2
SqDist(x, y, tx, ty) == Sq(x - tx) + Sq(y - ty)

\* ------------------------------------------------------------ place_tower
\* place_tower without the test of self.grid[x][y].
PlaceValidNoGrid(x, y) == /\ 0 <= x /\ x < Rows
                          /\ 0 <= y /\ y < Cols

PlaceValid(x, y) == /\ 0 <= x /\ x < Rows
                    /\ 0 <= y /\ y < Cols
                    /\ grid[<<x, y>>]

\* The registry after place_tower(x, y, range).
place_tower(tw, x, y, range) ==
    IF PlaceValid(x, y) THEN Append(tw, <<x, y, range>>) ELSE tw

\* ----------------------------------------------------- find_reliable_path
\* nx.Graph(): the edges by their end points, with their weight.
EmptyGraph == [e \in {} |-> 0]

\* G.add_edge(i, j, weight=w): an undirected edge; a second write for the
\* same pair replaces the weight.
add_edge(g, i, j, w) ==
    [e \in (DOMAIN g) \cup {{i, j}} |-> IF e = {i, j} THEN w ELSE g[e]]

\* The inner loop body without "if i == j: continue".
EdgeStepSelfLoop(g, tw, i, j) ==
    LET d == SqDist(tw[i + 1][1], tw[i + 1][2], tw[j + 1][1], tw[j + 1][2])
    IN IF d <= Sq(tw[i + 1][3]) THEN add_edge(g, i, j, d) ELSE g

\* One pass of the inner loop body for the ordered pair (i, j).
EdgeStep(g, tw, i, j) ==
    IF i = j
    THEN g
    ELSE LET d == SqDist(tw[i + 1][1], tw[i + 1][2], tw[j + 1][1], tw[j + 1][2])
         IN IF d <= Sq(tw[i + 1][3]) THEN add_edge(g, i, j, d) ELSE g

\* The two nested enumerate loops: pair number k (0-based) is
\* (k div n, k mod n), i outer and j inner.
RECURSIVE BuildLoop(_, _, _)
BuildLoop(g, tw, k) ==
    IF k >= Len(tw) * Len(tw)
    THEN g
    ELSE BuildLoop(EdgeStep(g, tw, k \div Len(tw), k % Len(tw)), tw, k + 1)

BuildGraph(tw) == BuildLoop(EmptyGraph, tw, 0)

\* The nodes of a graph: add_edge is the only call that adds any.
Nodes(g) == UNION (DOMAIN g)

HasEdge(g, u, v) == u # v /\ {u, v} \in DOMAIN g

Neighbors(g, u) == {v \in Nodes(g) : HasEdge(g, u, v)}

\* shortest_path without weight='weight': every edge has length 1.
HopWeight(g, u, v) == 1

\* weight='weight': the length of an edge is its weight attribute.
EdgeWeight(g, u, v) == g[{u, v}]

\* nx.shortest_path(G, source, target, weight='weight'), networkx 2.x/3.x:
\* a weighted query between two nodes is a Dijkstra search.  dist is the
\* dictionary of tentative distances, done the nodes already finalised.
MinOf(S) == CHOOSE m \in S : \A n \in S : m <= n

Relax(g, dist, done, u) ==
    LET nb == {v \in Neighbors(g, u) : v \notin done}
        nd(v) == dist[u] + EdgeWeight(g, u, v)
    IN [v \in (DOMAIN dist) \cup nb |->
            IF v \in nb /\ (v \notin DOMAIN dist \/ nd(v) < dist[v])
            THEN nd(v)
            ELSE dist[v]]

RECURSIVE Dijkstra(_, _, _)
Dijkstra(g, dist, done) ==
    LET fringe == (DOMAIN dist) \ done
    IN IF fringe = {}
       THEN dist
       ELSE LET best == MinOf({dist[v] : v \in fringe})
                u == CHOOSE v \in fringe : dist[v] = best
            IN Dijkstra(g, Relax(g, dist, done, u), done \cup {u})

\* The paths a search can hand back: it follows, from the source, edges
\* that are tight for the final distances, and never enters a node twice.
\* Which of several equally short paths comes back depends on the order of
\* the heap and of the adjacency lists, so the model keeps them all.
SeqRange(p) == {p[k] : k \in 1 .. Len(p)}

RECURSIVE TightPaths(_, _, _, _)
TightPaths(g, dist, p, t) ==
    LET u == p[Len(p)]
    IN IF u = t
       THEN {p}
       ELSE UNION {TightPaths(g, dist, Append(p, v), t) :
                     v \in {w \in Neighbors(g, u) \ SeqRange(p) :
                              dist[u] + EdgeWeight(g, u, w) = dist[w]}}

\* The outcomes of the try block of find_reliable_path: NodeNotFound is
\* raised for an end point that is no node of G and is not caught;
\* NetworkXNoPath is caught and turned into None.
PathOutcomes(g, s, t) ==
    IF s \notin Nodes(g) \/ t \notin Nodes(g)
    THEN {RetRaise("NodeNotFound")}
    ELSE IF s = t
    THEN {RetPath(<<s>>)}
    ELSE LET dist == Dijkstra(g, [v \in {s} |-> 0], {})
         IN IF t \notin DOMAIN dist
            THEN {RetNone}
            ELSE {RetPath(p) : p \in TightPaths(g, dist, <<s>>, t)}

\* ----------------------------------------------- optimize_tower_placement
\* The tower types a caller can pass: dictionaries with the keys the
\* optimizer reads.
TowerTypes == [range : 0 .. MaxRange, coverage : 0 .. MaxCoverage, cost : 0 .. MaxCost]

\* The value of the loop variable tower_type outside the for loop.
NoType == [range |-> 0, coverage |-> 0, cost |-> 0]

\* total_coverage with "distance < trange ** 2".
CoverageCountStrict(tw, x, y) ==
    Cardinality({i \in 1 .. Len(tw) :
                   SqDist(x, y, tw[i][1], tw[i][2]) < Sq(tw[i][3])})

\* total_coverage of the cell (x, y): the towers of the registry whose
\* squared distance to the cell is at most their squared range.
CoverageCount(tw, x, y) ==
    Cardinality({i \in 1 .. Len(tw) :
                   SqDist(x, y, tw[i][1], tw[i][2]) <= Sq(tw[i][3])})

\* The local variable distance after the loop over the towers for the cell
\* (x, y): the loop leaves in it the value for the last tower, and leaves it
\* as it was (d) when there is no tower.
LastDistance(tw, x, y, d) ==
    IF tw = <<>> THEN d ELSE SqDist(x, y, tw[Len(tw)][1], tw[Len(tw)][2])

\* The locals at the start of an iteration of the while loop; None is <<>>.
ScanStart(d) ==
    [best_tower |-> <<>>, best_coverage |-> 0, best_distance |-> 0,
     distance |-> d, raised |-> FALSE]

\* The body of the two for loops with "tower_type['coverage'] >=
\* best_coverage": a later cell replaces an earlier one.
ScanCellLast(st, tw, t, c) ==
    IF st.raised \/ ~grid[c]
    THEN st
    ELSE LET total == CoverageCount(tw, c[1], c[2])
             d == LastDistance(tw, c[1], c[2], st.distance)
         IN IF total = 0 /\ t.coverage >= st.best_coverage
            THEN IF d = Unbound
                 THEN [st EXCEPT !.best_tower = c, !.best_coverage = t.coverage,
                                 !.raised = TRUE]
                 ELSE [best_tower |-> c, best_coverage |-> t.coverage,
                       best_distance |-> d, distance |-> d, raised |-> FALSE]
            ELSE [st EXCEPT !.distance = d]

\* The body of the two for loops without "total_coverage == 0".
ScanCellAnyCell(st, tw, t, c) ==
    IF st.raised \/ ~grid[c]
    THEN st
    ELSE LET d == LastDistance(tw, c[1], c[2], st.distance)
         IN IF t.coverage > st.best_coverage
            THEN IF d = Unbound
                 THEN [st EXCEPT !.best_tower = c, !.best_coverage = t.coverage,
                                 !.raised = TRUE]
                 ELSE [best_tower |-> c, best_coverage |-> t.coverage,
                       best_distance |-> d, distance |-> d, raised |-> FALSE]
            ELSE [st EXCEPT !.distance = d]

\* The body of the two for loops for one cell c.  Reading distance while
\* it is unbound raises UnboundLocalError, which ends the scan.
ScanCell(st, tw, t, c) ==
    IF st.raised \/ ~grid[c]
    THEN st
    ELSE LET total == CoverageCount(tw, c[1], c[2])
             d == LastDistance(tw, c[1], c[2], st.distance)
         IN IF total = 0 /\ t.coverage > st.best_coverage
            THEN IF d = Unbound
                 THEN [st EXCEPT !.best_tower = c, !.best_coverage = t.coverage,
                                 !.raised = TRUE]
                 ELSE [best_tower |-> c, best_coverage |-> t.coverage,
                       best_distance |-> d, distance |-> d, raised |-> FALSE]
            ELSE [st EXCEPT !.distance = d]

RECURSIVE ScanFrom(_, _, _, _)
ScanFrom(st, tw, t, k) ==
    IF k > Rows * Cols
    THEN st
    ELSE ScanFrom(ScanCell(st, tw, t, Cells[k]), tw, t, k + 1)

\* One scan of the grid, for x in range(n), for y in range(m).
Scan(tw, t, d) == ScanFrom(ScanStart(d), tw, t, 1)

\* ----------------------------------------------------------------- state
TypeOK ==
    /\ grid \in [XS \X YS -> BOOLEAN]
    /\ pc \in {"idle", "for", "while"}
    /\ Len(towers) <= MaxTowers + Rows * Cols

Init ==
    /\ grid \in [XS \X YS -> BOOLEAN]
    /\ towers = <<>>
    /\ pc = "idle"
    /\ budget = 0
    /\ tower_type = NoType
    /\ ti = 0
    /\ remaining_budget = 0
    /\ distance = Unbound
    /\ typePlaced = 0
    /\ optPlaced = {}
    /\ G = EmptyGraph
    /\ ret = RetNone
    /\ lastCall = Call("init", <<>>)

\* city.place_tower(x, y, range) called from outside the optimizer.
PlaceTower ==
    /\ pc = "idle"
    /\ Len(towers) < MaxTowers
    /\ \E x \in -1 .. Rows, y \in -1 .. Cols, range \in 0 .. MaxRange :
         /\ towers' = place_tower(towers, x, y, range)
         /\ lastCall' = Call("place_tower", <<x, y, range>>)
    /\ G' = EmptyGraph
    /\ ret' = RetNone
    /\ UNCHANGED <<grid, pc, optLocals, optPlaced>>

\* city.find_reliable_path(start, end); the index len(towers) stands for
\* the indices that name no tower.
FindReliablePath ==
    /\ pc = "idle"
    /\ \E start \in 0 .. Len(towers), end \in 0 .. Len(towers) :
         /\ G' = BuildGraph(towers)
         /\ ret' \in PathOutcomes(G', start, end)
         /\ lastCall' = Call("find_reliable_path", <<start, end>>)
    /\ UNCHANGED <<grid, towers, pc, optLocals, optPlaced>>

\* The while condition as "remaining_budget >= 0".
WhileCondNonNegative(remaining, t) == remaining >= 0

\* while remaining_budget >= tower_type['cost']
WhileCond(remaining, t) == remaining >= t.cost

\* city.optimize_tower_placement(budget, tower_types) is entered.  The
\* elements of tower_types are drawn when the for loop reaches them (no
\* step reads one earlier); ti counts the types the loop has taken.
Optimize ==
    /\ pc = "idle"
    /\ \E b \in 0 .. MaxBudget :
         /\ budget' = b
         /\ lastCall' = Call("optimize_tower_placement", <<b>>)
    /\ tower_type' = NoType
    /\ pc' = "for"
    /\ ti' = 0
    /\ remaining_budget' = 0
    /\ distance' = Unbound
    /\ typePlaced' = 0
    /\ G' = EmptyGraph
    /\ ret' = RetNone
    /\ UNCHANGED <<grid, towers, optPlaced>>

\* for tower_type in tower_types: the next type, with the whole budget.
ForNext ==
    /\ pc = "for"
    /\ ti < MaxTypes
    /\ \E t \in TowerTypes : tower_type' = t
    /\ ti' = ti + 1
    /\ remaining_budget' = budget
    /\ typePlaced' = 0
    /\ pc' = "while"
    /\ UNCHANGED <<grid, towers, budget, distance, optPlaced, G, ret, lastCall>>

\* The call's locals are gone once it is left.
LocalsGone ==
    /\ budget' = 0
    /\ tower_type' = NoType
    /\ ti' = 0
    /\ remaining_budget' = 0
    /\ distance' = Unbound
    /\ typePlaced' = 0

\* The list of types is exhausted: the call returns None.
OptimizeReturn ==
    /\ pc = "for"
    /\ pc' = "idle"
    /\ ret' = RetNone
    /\ LocalsGone
    /\ UNCHANGED <<grid, towers, optPlaced, G, lastCall>>

\* The while condition is false: on to the next type.
WhileExit ==
    /\ pc = "while"
    /\ ~WhileCond(remaining_budget, tower_type)
    /\ pc' = "for"
    /\ UNCHANGED <<grid, towers, optLocals, optPlaced, G, ret, lastCall>>

\* An iteration whose scan found a cell: the tower is placed and paid.
WhilePlace ==
    /\ pc = "while"
    /\ WhileCond(remaining_budget, tower_type)
    /\ Len(towers) < TowerCap
    /\ LET st == Scan(towers, tower_type, distance)
       IN /\ ~st.raised
          /\ st.best_tower # <<>>
          /\ towers' = place_tower(towers, st.best_tower[1], st.best_tower[2],
                                   tower_type.range)
          /\ remaining_budget' = remaining_budget - tower_type.cost
          /\ distance' = st.distance
          /\ typePlaced' = typePlaced + (Len(towers') - Len(towers))
          /\ optPlaced' = optPlaced \cup (Indices(towers') \ Indices(towers))
    /\ UNCHANGED <<grid, pc, budget, tower_type, ti, G, ret, lastCall>>

\* An iteration whose scan found no cell: break.
WhileBreak ==
    /\ pc = "while"
    /\ WhileCond(remaining_budget, tower_type)
    /\ LET st == Scan(towers, tower_type, distance)
       IN /\ ~st.raised
          /\ st.best_tower = <<>>
          /\ distance' = st.distance
    /\ pc' = "for"
    /\ UNCHANGED <<grid, towers, budget, tower_type, ti, remaining_budget,
                   typePlaced, optPlaced, G, ret, lastCall>>

\* An iteration whose scan raised: the exception leaves the call.
WhileRaise ==
    /\ pc = "while"
    /\ WhileCond(remaining_budget, tower_type)
    /\ Scan(towers, tower_type, distance).raised
    /\ pc' = "idle"
    /\ ret' = RetRaise("UnboundLocalError")
    /\ LocalsGone
    /\ UNCHANGED <<grid, towers, optPlaced, G, lastCall>>

OptimizeStep ==
    ForNext \/ OptimizeReturn \/ WhileExit \/ WhilePlace \/ WhileBreak \/ WhileRaise

Next == PlaceTower \/ FindReliablePath \/ Optimize \/ OptimizeStep

Spec == Init /\ [][Next]_vars

\* Once entered, a call runs on: the program has one thread and no step of
\* the call waits for anything.
FairSpec == Spec /\ WF_vars(OptimizeStep)

\* The guard of WhilePlace on the registry's length never stops a step.
TowerCapHolds == Len(towers) < TowerCap

\* ------------------------------------------------- the claims' vocabulary
\* Tower i of the registry tw.
TowerAt(tw, i) == tw[i + 1]

TowerDist(tw, i, j) ==
    Sq(TowerAt(tw, i)[1] - TowerAt(tw, j)[1]) + Sq(TowerAt(tw, i)[2] - TowerAt(tw, j)[2])

\* The range test of the connectivity graph passes in one of the two
\* directions.
Linked(tw, i, j) ==
    /\ i # j
    /\ \/ TowerDist(tw, i, j) <= TowerAt(tw, i)[3] * TowerAt(tw, i)[3]
       \/ TowerDist(tw, i, j) <= TowerAt(tw, j)[3] * TowerAt(tw, j)[3]

\* The towers joined to those of S by a chain of edges.
RECURSIVE ReachFrom(_, _)
ReachFrom(tw, S) ==
    LET T == S \cup {j \in Indices(tw) : \E i \in S : Linked(tw, i, j)}
    IN IF T = S THEN S ELSE ReachFrom(tw, T)

Joined(tw, i, j) == j \in ReachFrom(tw, {i})

\* The sequences of distinct tower indices that start with p.
RECURSIVE SimpleFrom(_, _)
SimpleFrom(p, S) ==
    {p} \cup UNION {SimpleFrom(Append(p, v), S \ {v}) : v \in S}

\* q leads from s to e along edges of the connectivity graph.
IsRoute(tw, q, s, e) ==
    /\ q[1] = s
    /\ q[Len(q)] = e
    /\ \A k \in 1 .. (Len(q) - 1) : Linked(tw, q[k], q[k + 1])

RECURSIVE RouteWeight(_, _)
RouteWeight(tw, q) ==
    IF Len(q) <= 1
    THEN 0
    ELSE TowerDist(tw, q[1], q[2]) + RouteWeight(tw, Tail(q))

Routes(tw, s, e) ==
    {q \in SimpleFrom(<<s>>, Indices(tw) \ {s}) : IsRoute(tw, q, s, e)}

\* Some tower of tw has the cell c within its range.
IsCovered(tw, c) ==
    \E i \in Indices(tw) :
        Sq(c[1] - TowerAt(tw, i)[1]) + Sq(c[2] - TowerAt(tw, i)[2])
            <= TowerAt(tw, i)[3] * TowerAt(tw, i)[3]

\* c is passable and uncovered, and no cell before it in row-major order is.
FirstFree(tw, c) ==
    /\ grid[c]
    /\ ~IsCovered(tw, c)
    /\ \A x \in XS, y \in YS :
         (x < c[1] \/ (x = c[1] /\ y < c[2]))
             => ~(grid[<<x, y>>] /\ ~IsCovered(tw, <<x, y>>))

PathCall == lastCall.op = "find_reliable_path"
PathStart == lastCall.args[1]
PathEnd == lastCall.args[2]

\* ------------------------------------------------------------- the claims
\* C1: place(x, y, range) appends the tower (x, y, range) at the end of the
\* registry iff 0 <= x < rows, 0 <= y < cols and the cell is passable; in
\* every other case the registry stays as it is; no error is raised.
C1_PlaceIffValid ==
    [][lastCall'.op = "place_tower" =>
          LET a == lastCall'.args
              ok == /\ a[1] \in XS
                    /\ a[2] \in YS
                    /\ grid[<<a[1], a[2]>>]
          IN /\ ok => towers' = Append(towers, a)
             /\ ~ok => towers' = towers
             /\ ret'.kind = "None"]_vars

\* A tower was appended to a registry that already held one.
C1_Witness ==
    /\ lastCall.op = "place_tower"
    /\ Len(towers) = 2
    /\ towers[2] = lastCall.args

\* C2: shortestPath(start, end) for two existing towers start # end that no
\* chain of edges joins returns NoPath and raises no error, also when one or
\* both of the towers have no edge at all.
C2_DisjoinedGivesNoPath ==
    (/\ PathCall
     /\ PathStart \in Indices(towers)
     /\ PathEnd \in Indices(towers)
     /\ PathStart # PathEnd
     /\ ~Joined(towers, PathStart, PathEnd)) => ret = RetNone

\* C3: shortestPath(i, i) returns [i] for every existing tower i, with or
\* without an edge.
C3_SelfPath ==
    (/\ PathCall
     /\ PathStart \in Indices(towers)
     /\ PathEnd = PathStart) => ret = RetPath(<<PathStart>>)

\* C4: at every step of an optimize call the costs of the towers added for
\* the current type sum to at most the budget, and no step of the call
\* shortens the registry (it keeps the towers it had, in their places).
C4_BudgetAndGrowth ==
    [][/\ pc' # "idle" => typePlaced' * tower_type'.cost <= budget'
       /\ pc # "idle" => /\ Len(towers') >= Len(towers)
                         /\ SubSeq(towers', 1, Len(towers)) = towers]_vars

\* A type of cost 1 has used up a budget of 2.
C4_Witness ==
    /\ pc # "idle"
    /\ budget = 2
    /\ tower_type.cost = 1
    /\ typePlaced = 2

\* C5: optimize terminates: every call that was entered is left.
C5_OptimizeTerminates == (pc # "idle") ~> (pc = "idle")

\* The while loop of a type that costs nothing was left after two towers.
C5_Witness ==
    /\ pc = "for"
    /\ ti >= 1
    /\ tower_type.cost = 0
    /\ typePlaced = 2

C7_ShortestPath ==
    (PathCall /\ ret.kind = "path") =>
        /\ IsRoute(towers, ret.path, PathStart, PathEnd)
        /\ \A q \in Routes(towers, PathStart, PathEnd) :
               RouteWeight(towers, ret.path) <= RouteWeight(towers, q)
        /\ (/\ Len(towers) = 3
            /\ PathStart = 0 /\ PathEnd = 2
            /\ Linked(towers, 0, 1) /\ Linked(towers, 1, 2)
            /\ ~Linked(towers, 0, 2)) => ret.path = <<0, 1, 2>>

\* The path 0, 1, 2 came back although the graph has the edge from 0 to 2.
C7_Witness ==
    /\ PathCall
    /\ ret = RetPath(<<0, 1, 2>>)
    /\ {0, 2} \in DOMAIN G

\* C8: the graph a path query builds has the edge {i, j}, i # j, iff the
\* squared distance d of the two towers is at most the squared range of one
\* of them, the edge's weight is d, and the graph has no self-loop.
C8_GraphEdges ==
    PathCall =>
        /\ \A i, j \in Indices(towers) :
               i # j => /\ {i, j} \in DOMAIN G <=> Linked(towers, i, j)
                        /\ {i, j} \in DOMAIN G => G[{i, j}] = TowerDist(towers, i, j)
        /\ \A e \in DOMAIN G : Cardinality(e) = 2 /\ e \subseteq Indices(towers)

\* The graph has an edge that only the later tower's range test admits.
C8_Witness ==
    /\ PathCall
    /\ \E i, j \in Indices(towers) :
         /\ i < j
         /\ {i, j} \in DOMAIN G
         /\ TowerDist(towers, i, j) > TowerAt(towers, i)[3] * TowerAt(towers, i)[3]

\* C9: optimize on an empty registry, a grid with a passable cell and a
\* first type with cost <= budget and coverage score > 0 raises no error,
\* and its first placement is a tower on the first passable cell.
C9_EmptyRegistryFirstPlacement ==
    [][(/\ pc = "while"
        /\ ti = 1
        /\ towers = <<>>
        /\ tower_type.cost <= budget
        /\ remaining_budget = budget
        /\ tower_type.coverage > 0
        /\ \E c \in XS \X YS : grid[c]) =>
          /\ ret'.kind # "raise"
          /\ \E c \in XS \X YS :
                 /\ FirstFree(<<>>, c)
                 /\ towers' = <<<<c[1], c[2], tower_type.range>>>>]_vars

\* C10: when the while loop of a type with coverage score > 0 is left by
\* the break, every passable cell is covered; and every tower the optimizer
\* placed stands on a passable cell that no earlier tower of the registry
\* covers, so that no two of them share a cell.
OptPlacedApart ==
    /\ \A k \in optPlaced :
         /\ grid[<<TowerAt(towers, k)[1], TowerAt(towers, k)[2]>>]
         /\ ~IsCovered(SubSeq(towers, 1, k),
                       <<TowerAt(towers, k)[1], TowerAt(towers, k)[2]>>)
    /\ \A k, l \in optPlaced :
         k # l => <<TowerAt(towers, k)[1], TowerAt(towers, k)[2]>>
                    # <<TowerAt(towers, l)[1], TowerAt(towers, l)[2]>>

C10_BreakMeansCovered ==
    [][/\ (/\ pc = "while" /\ pc' = "for"
           /\ remaining_budget >= tower_type.cost
           /\ tower_type.coverage > 0) =>
              \A c \in XS \X YS : grid[c] => IsCovered(towers', c)
       /\ OptPlacedApart']_vars

\* The break ended the loop of a type after the optimizer had placed two
\* towers for it.
C10_Witness ==
    /\ pc = "for"
    /\ ti >= 1
    /\ tower_type.coverage > 0
    /\ remaining_budget >= tower_type.cost
    /\ typePlaced = 2
    /\ Cardinality(optPlaced) >= 2
====
